---- MODULE Spec2Model ----
(***************************************************************************)
(* Model of the concurrent label graph of src/src/graph/core.rs:           *)
(* Graph { root, nodes: RwLock<HashMap<String, Arc<Node>>>, events_tx }    *)
(* and Node { data, children: RwLock<Vec<Weak<Node>>> }.                   *)
(*                                                                         *)
(* Callers are threads that run Graph::add_edge step by step: every lock   *)
(* acquisition, every critical section and every channel send is a step    *)
(* of its own, so that all interleavings of concurrent callers are         *)
(* explored.  Queries (node_count, contains, get_node, get_root,           *)
(* get_children) take a read lock for one lookup.  They are single steps   *)
(* of an observer that records what it saw, and, where the locks matter,   *)
(* the steps of a reader that takes and drops its read lock.               *)
(***************************************************************************)
EXTENDS Integers, Sequences, FiniteSets, TLC

\* ------------------------------------------------------------------ bounds
\* number of concurrent callers of add_edge
NumThreads == 2
\* total number of calls (add_edge and queries) made over a run
MaxCalls == 3
\* number of registry entries removed behind the graph's back over a run
MaxRemovals == 1

Threads == 1..NumThreads

\* the labels callers pass to add_edge; "root" is the reserved label
Labels == {"root", "A", "B"}

\* node identities (Arc pointers); NoNode is "no pointer" (None)
NoNode == 0
NodeIds == 1..(Cardinality(Labels) + MaxRemovals)
NoLabel == "-"
\* no thread holds the lock
NoThread == 0
\* the observer has not called get_node yet
NotAsked == -1

VARIABLES
    nodes,        \* Graph.nodes: label -> Arc<Node>, NoNode when absent
    data,         \* Node.data of every allocated node
    children,     \* Node.children: sequence of Weak<Node>
    nextId,       \* the next node identity Arc::new hands out
    root,         \* Graph.root
    events_tx,    \* Graph.events_tx is Some (TRUE) or None (FALSE)
    rxAlive,      \* the UnboundedReceiver has not been dropped
    events,       \* every event placed on the channel, in send order
    regWriter,    \* thread holding nodes.write(), or NoThread
    nodeWriter,   \* per node: thread holding children.write(), or NoThread
    pc,           \* per thread: position inside add_edge
    argP,         \* per thread: parent_content of the current/last call
    argC,         \* per thread: child_content of the current/last call
    parent,       \* per thread: the Arc<Node> the call holds for the parent
    child,        \* per thread: the Arc<Node> the call holds for the child
    isNewCount,   \* per label: how many get_or_create_node calls saw is_new
    goc,          \* per label: the nodes get_or_create_node has returned
    started,      \* per (parent, child): add_edge calls entered
    returned,     \* per (parent, child, result): add_edge calls returned
    obsCount,     \* observer: last node_count() sample (0: none yet)
    obsLabel,     \* observer: the label its lookups are about
    obsContains,  \* observer: last contains(obsLabel) answer
    obsNode,      \* observer: last get_node(obsLabel) answer (a held handle)
    rdPc,         \* reader: position inside its query
    reads,        \* reader: queries entered
    regReader,    \* the reader holds nodes.read()
    nodeReader,   \* the node whose children.read() the reader holds, or NoNode
    removals,     \* registry entries removed so far
    obsKids,      \* reader: labels of its last get_root().get_children()
    sent,         \* per thread: the events its current call has sent so far
    dupAtEntry,   \* per thread: the edge was already there when the call entered
    recvd         \* receiver: the number of events it has taken off the queue

vars == << nodes, data, children, nextId, root, events_tx, rxAlive, events,
           regWriter, nodeWriter, pc, argP, argC, parent, child,
           isNewCount, goc, started, returned,
           obsCount, obsLabel, obsContains, obsNode,
           rdPc, reads, regReader, nodeReader, removals, obsKids,
           sent, dupAtEntry, recvd >>

graphVars == << nodes, data, children, nextId, root >>
lockVars == << regWriter, nodeWriter >>
callVars == << pc, argP, argC, parent, child >>
histVars == << isNewCount, goc, started, returned >>
readerVars == << rdPc, reads, regReader, nodeReader, removals >>
obsVars == << obsCount, obsLabel, obsContains, obsNode, readerVars >>
\* the record of what each running call did and of what the reader and the
\* receiver got, kept beside the program
traceVars == << sent, dupAtEntry, obsKids, recvd >>

\* the (parent_content, child_content) pairs callers pass to add_edge: a
\* self-loop, an edge from root, an edge between two other labels and the
\* edge that closes the cycle
Edges == {<<"root", "root">>, <<"root", "A">>, <<"A", "B">>, <<"B", "A">>}
\* the pairs passed by callers that each add their own new child to root
FanOut == {<<"root", "A">>, <<"root", "B">>}
\* every pair some caller passes
Calls == Edges \cup FanOut
Results == {"Ok", "DuplicateEdge", "NodeAddedSendErr", "EdgeAddedSendErr"}

\* ------------------------------------------------------- pure helpers
\* the number of strong references (Arc) to node n: the registry entry,
\* Graph.root, the locals of running add_edge calls, the observer's handle;
\* a children list holds Weak references, which do not count
StrongCountWithChildren(n) ==
    Cardinality({L \in Labels : nodes[L] = n})
    + (IF root = n THEN 1 ELSE 0)
    + Cardinality({t \in Threads : parent[t] = n})
    + Cardinality({t \in Threads : child[t] = n})
    + (IF obsNode = n THEN 1 ELSE 0)
    + Cardinality({m \in NodeIds : \E i \in 1..Len(children[m]) : children[m][i] = n})
StrongCount(n) ==
    Cardinality({L \in Labels : nodes[L] = n})
    + (IF root = n THEN 1 ELSE 0)
    + Cardinality({t \in Threads : parent[t] = n})
    + Cardinality({t \in Threads : child[t] = n})
    + (IF obsNode = n THEN 1 ELSE 0)

\* Weak::upgrade: the node if some Arc still owns it, None otherwise
UpgradeNeverFails(w) == w
Upgrade(w) == IF w # NoNode /\ StrongCount(w) > 0 THEN w ELSE NoNode

\* Node::get_children: filter_map(|weak| weak.upgrade()).collect()
GetChildren(n) == SelectSeq(children[n], LAMBDA w : Upgrade(w) # NoNode)

\* Node::get_data
GetData(n) == data[n]

\* Graph::get_root
GetRoot == root

\* Graph::node_count: nodes.read().len()
NodeCountTryRead ==
    IF regWriter = NoThread THEN Cardinality({L \in Labels : nodes[L] # NoNode}) ELSE 0
NodeCount == Cardinality({L \in Labels : nodes[L] # NoNode})

\* Graph::contains: nodes.read().contains_key(content)
Contains(L) == nodes[L] # NoNode

\* Graph::get_node: nodes.read().get(content).cloned()
GetNode(L) == nodes[L]

\* the duplicate test of add_edge:
\* children.iter().any(|c| match c.upgrade() { Some(arc) => ptr_eq(arc, child), None => false })
IsDuplicateByLabel(p, c) ==
    \E i \in 1..Len(children[p]) : data[children[p][i]] = data[c]
IsDuplicateAnywhere(p, c) ==
    \E n \in NodeIds : \E i \in 1..Len(children[n]) : Upgrade(children[n][i]) = c
IsDuplicate(p, c) ==
    \E i \in 1..Len(children[p]) :
        /\ Upgrade(children[p][i]) # NoNode
        /\ Upgrade(children[p][i]) = c

\* get_or_create_node: nodes.entry(content) is Entry::Vacant
AlwaysVacant(content) == TRUE
IsVacant(content) == nodes[content] = NoNode

\* get_or_create_node: if is_new { if let Some(tx) = &self.events_tx { send } }
SendsOnEveryLookup(is_new) == events_tx
SendsNodeAdded(is_new) == is_new /\ events_tx

\* the label a thread's get_or_create_node call is about: add_edge looks
\* up parent_content first and child_content second
ContentChildFirst(t) ==
    IF pc[t] \in {"p_lock", "p_entry", "p_send"} THEN argC[t] ELSE argP[t]
Content(t) == IF pc[t] \in {"p_lock", "p_entry", "p_send"} THEN argP[t] ELSE argC[t]

\* add_edge: GraphEvent::EdgeAdded(parent_content, child_content)
EdgeEventReversed(t) == <<"EdgeAdded", argC[t], argP[t]>>
EdgeEvent(t) == <<"EdgeAdded", argP[t], argC[t]>>

\* the registry knows both labels and p's children list holds a live
\* reference to c's node
HasEdge(p, c) ==
    /\ nodes[p] # NoNode
    /\ nodes[c] # NoNode
    /\ IsDuplicate(nodes[p], nodes[c])

Bump(f, k) == [f EXCEPT ![k] = @ + 1]

\* ------------------------------------------------------------ Init
InitRootNotRegistered ==
    /\ root = 1
    /\ nodes = [L \in Labels |-> NoNode]
    /\ data = [n \in NodeIds |-> IF n = 1 THEN "root" ELSE NoLabel]
    /\ children = [n \in NodeIds |-> << >>]
    /\ nextId = 2
    /\ events_tx \in BOOLEAN
    /\ rxAlive = events_tx
    /\ events = << >>
    /\ regWriter = NoThread
    /\ nodeWriter = [n \in NodeIds |-> NoThread]
    /\ pc = [t \in Threads |-> "idle"]
    /\ argP = [t \in Threads |-> NoLabel]
    /\ argC = [t \in Threads |-> NoLabel]
    /\ parent = [t \in Threads |-> NoNode]
    /\ child = [t \in Threads |-> NoNode]
    /\ isNewCount = [L \in Labels |-> 0]
    /\ goc = [L \in Labels |-> {}]
    /\ started = [e \in Calls |-> 0]
    /\ returned = [e \in Calls \X Results |-> 0]
    /\ obsCount = 0
    /\ obsLabel = NoLabel
    /\ obsContains = FALSE
    /\ obsNode = NotAsked
    /\ rdPc = "idle"
    /\ reads = 0
    /\ regReader = FALSE
    /\ nodeReader = NoNode
    /\ removals = 0
    /\ obsKids = << >>
    /\ sent = [t \in Threads |-> << >>]
    /\ dupAtEntry = [t \in Threads |-> FALSE]
    /\ recvd = 0

\* Graph::new (events_tx = Some) and Graph::new_without_events (None)
Init ==
    /\ root = 1
    /\ nodes = [L \in Labels |-> IF L = "root" THEN 1 ELSE NoNode]
    /\ data = [n \in NodeIds |-> IF n = 1 THEN "root" ELSE NoLabel]
    /\ children = [n \in NodeIds |-> << >>]
    /\ nextId = 2
    /\ events_tx \in BOOLEAN
    /\ rxAlive = events_tx
    /\ events = << >>
    /\ regWriter = NoThread
    /\ nodeWriter = [n \in NodeIds |-> NoThread]
    /\ pc = [t \in Threads |-> "idle"]
    /\ argP = [t \in Threads |-> NoLabel]
    /\ argC = [t \in Threads |-> NoLabel]
    /\ parent = [t \in Threads |-> NoNode]
    /\ child = [t \in Threads |-> NoNode]
    /\ isNewCount = [L \in Labels |-> 0]
    /\ goc = [L \in Labels |-> {}]
    /\ started = [e \in Calls |-> 0]
    /\ returned = [e \in Calls \X Results |-> 0]
    /\ obsCount = 0
    /\ obsLabel = NoLabel
    /\ obsContains = FALSE
    /\ obsNode = NotAsked
    /\ rdPc = "idle"
    /\ reads = 0
    /\ regReader = FALSE
    /\ nodeReader = NoNode
    /\ removals = 0
    /\ obsKids = << >>
    /\ sent = [t \in Threads |-> << >>]
    /\ dupAtEntry = [t \in Threads |-> FALSE]
    /\ recvd = 0

RECURSIVE SumOver(_, _)
SumOver(f, S) ==
    IF S = {} THEN 0
    ELSE LET e == CHOOSE x \in S : TRUE IN f[e] + SumOver(f, S \ {e})

\* add_edge calls entered so far
TotalStarted == SumOver(started, Calls)

\* ------------------------------------------------- add_edge, step by step
\* a caller enters add_edge(p, c); callers are interchangeable, so a new call
\* runs on the first free thread
Call(t, p, c) ==
    /\ pc[t] = "idle"
    /\ \A u \in Threads : u < t => pc[u] # "idle"
    /\ <<p, c>> \in Calls
    /\ TotalStarted + reads < MaxCalls
    /\ pc' = [pc EXCEPT ![t] = "p_lock"]
    /\ argP' = [argP EXCEPT ![t] = p]
    /\ argC' = [argC EXCEPT ![t] = c]
    /\ started' = Bump(started, <<p, c>>)
    /\ UNCHANGED << graphVars, lockVars, parent, child, events_tx, rxAlive,
                    events, isNewCount, goc, returned, obsVars >>

\* the call returns r to its caller; its locals parent and child are dropped
Return(t, r) ==
    /\ pc' = [pc EXCEPT ![t] = "idle"]
    /\ argP' = [argP EXCEPT ![t] = NoLabel]
    /\ argC' = [argC EXCEPT ![t] = NoLabel]
    /\ parent' = [parent EXCEPT ![t] = NoNode]
    /\ child' = [child EXCEPT ![t] = NoNode]
    /\ returned' = Bump(returned, << <<argP[t], argC[t]>>, r >>)

\* get_or_create_node: let mut nodes = self.nodes.write().unwrap()
GocLock(t) ==
    /\ pc[t] \in {"p_lock", "c_lock"}
    /\ regWriter = NoThread
    /\ ~regReader
    /\ regWriter' = t
    /\ pc' = [pc EXCEPT ![t] = IF pc[t] = "p_lock" THEN "p_entry" ELSE "c_entry"]
    /\ UNCHANGED << graphVars, nodeWriter, argP, argC, parent, child,
                    events_tx, rxAlive, events, histVars, obsVars >>

\* Node::new gives every node the label of root
NodeNewLabelledRoot(content) == "root"

\* Node::new(content): data: data.to_owned()
NodeNew(content) == content

\* get_or_create_node: match nodes.entry(content) { Vacant => insert a new
\* node, is_new = true; Occupied => the existing node, is_new = false };
\* the write guard is dropped at the end of the block
GocEntry(t) ==
    /\ pc[t] \in {"p_entry", "c_entry"}
    /\ regWriter = t
    /\ LET content == Content(t)
           is_new == IsVacant(content)
           node == IF is_new THEN nextId ELSE nodes[content]
           send == SendsNodeAdded(is_new)
       IN /\ IF is_new
             THEN /\ nodes' = [nodes EXCEPT ![content] = node]
                  /\ data' = [data EXCEPT ![node] = NodeNew(content)]
                  /\ children' = [children EXCEPT ![node] = << >>]
                  /\ nextId' = nextId + 1
                  /\ isNewCount' = Bump(isNewCount, content)
             ELSE UNCHANGED << nodes, data, children, nextId, isNewCount >>
          /\ IF pc[t] = "p_entry"
             THEN /\ parent' = [parent EXCEPT ![t] = node]
                  /\ child' = child
                  /\ pc' = [pc EXCEPT ![t] = IF send THEN "p_send" ELSE "c_lock"]
             ELSE /\ child' = [child EXCEPT ![t] = node]
                  /\ parent' = parent
                  /\ pc' = [pc EXCEPT ![t] = IF send THEN "c_send" ELSE "ch_lock"]
          /\ goc' = IF send THEN goc ELSE [goc EXCEPT ![content] = @ \cup {node}]
    /\ regWriter' = NoThread
    /\ UNCHANGED << root, nodeWriter, argP, argC, events_tx,
                    rxAlive, events, started, returned, obsVars >>

\* get_or_create_node: if is_new { tx.send(NodeAdded(content)).map_err(..)? };
\* a send to a dropped receiver fails and add_edge returns that error
NodeSend(t) ==
    /\ pc[t] \in {"p_send", "c_send"}
    /\ IF rxAlive
       THEN /\ events' = Append(events, <<"NodeAdded", Content(t)>>)
            /\ pc' = [pc EXCEPT ![t] = IF pc[t] = "p_send" THEN "c_lock" ELSE "ch_lock"]
            /\ goc' = [goc EXCEPT ![Content(t)] =
                          @ \cup {IF pc[t] = "p_send" THEN parent[t] ELSE child[t]}]
            /\ UNCHANGED << argP, argC, parent, child, returned >>
       ELSE /\ Return(t, "NodeAddedSendErr")
            /\ UNCHANGED << events, goc >>
    /\ UNCHANGED << graphVars, lockVars, events_tx, rxAlive,
                    isNewCount, started, obsVars >>

\* add_edge: let mut children = parent.children.write().unwrap()
ChLock(t) ==
    /\ pc[t] = "ch_lock"
    /\ nodeWriter[parent[t]] = NoThread
    /\ nodeReader # parent[t]
    /\ nodeWriter' = [nodeWriter EXCEPT ![parent[t]] = t]
    /\ pc' = [pc EXCEPT ![t] = "ch_scan"]
    /\ UNCHANGED << graphVars, regWriter, argP, argC, parent, child,
                    events_tx, rxAlive, events, histVars, obsVars >>

\* Vec::push puts the new entry in front of the others
PushFront(list, w) == <<w>> \o list

\* children.push(Arc::downgrade(&child)): Vec::push appends at the end
Push(list, w) == Append(list, w)

\* add_edge: the duplicate scan under the write lock; a duplicate logs a
\* warning and returns Ok(()), otherwise children.push(Arc::downgrade(&child));
\* the guard is dropped at the end of the block
ChScan(t) ==
    /\ pc[t] = "ch_scan"
    /\ nodeWriter[parent[t]] = t
    /\ nodeWriter' = [nodeWriter EXCEPT ![parent[t]] = NoThread]
    /\ IF IsDuplicate(parent[t], child[t])
       THEN /\ Return(t, "Ok")
            /\ UNCHANGED children
       ELSE /\ children' = [children EXCEPT ![parent[t]] = Push(@, child[t])]
            /\ IF events_tx
               THEN /\ pc' = [pc EXCEPT ![t] = "e_send"]
                    /\ UNCHANGED << argP, argC, parent, child, returned >>
               ELSE Return(t, "Ok")
    /\ UNCHANGED << nodes, data, nextId, root, regWriter, events_tx,
                    rxAlive, events, isNewCount, goc, started, obsVars >>

\* the edge is inserted along with the send of its event, once more
EdgeSendPushes(t) ==
    /\ pc[t] = "e_send"
    /\ children' = [children EXCEPT ![parent[t]] = Push(@, child[t])]
    /\ IF rxAlive
       THEN /\ events' = Append(events, EdgeEvent(t))
            /\ Return(t, "Ok")
       ELSE /\ Return(t, "EdgeAddedSendErr")
            /\ UNCHANGED events
    /\ UNCHANGED << nodes, data, nextId, root, lockVars, events_tx, rxAlive,
                    isNewCount, goc, started, obsVars >>

\* add_edge: tx.send(EdgeAdded(parent, child)).map_err(..)?; Ok(())
EdgeSend(t) ==
    /\ pc[t] = "e_send"
    /\ IF rxAlive
       THEN /\ events' = Append(events, EdgeEvent(t))
            /\ Return(t, "Ok")
       ELSE /\ Return(t, "EdgeAddedSendErr")
            /\ UNCHANGED events
    /\ UNCHANGED << graphVars, lockVars, events_tx, rxAlive,
                    isNewCount, goc, started, obsVars >>

\* ------------------------------------------------------------ environment
\* the owner of the UnboundedReceiver returned by Graph::new drops it
DropReceiver ==
    /\ rxAlive
    /\ rxAlive' = FALSE
    /\ UNCHANGED << graphVars, lockVars, callVars, histVars, obsVars,
                    events_tx, events >>

\* --------------------------------------------------------------- observer
\* node_count(): one lookup under nodes.read()
SampleNodeCount ==
    /\ regWriter = NoThread
    /\ obsCount' = NodeCount
    /\ UNCHANGED << graphVars, lockVars, callVars, histVars, events_tx, rxAlive,
                    events, obsLabel, obsContains, obsNode, readerVars >>

\* contains(L): one lookup under nodes.read(); turning to another label
\* drops the handle held for the previous one
SampleContains(L) ==
    /\ regWriter = NoThread
    /\ obsLabel' = L
    /\ obsContains' = Contains(L)
    /\ obsNode' = IF L = obsLabel /\ obsNode \in NodeIds THEN obsNode ELSE NotAsked
    /\ UNCHANGED << graphVars, lockVars, callVars, histVars, events_tx, rxAlive,
                    events, obsCount, readerVars >>

\* get_node written as a get-or-create: an absent label is inserted
SampleGetNodeCreates ==
    /\ regWriter = NoThread
    /\ obsLabel # NoLabel
    /\ IF nodes[obsLabel] = NoNode
       THEN /\ nodes' = [nodes EXCEPT ![obsLabel] = nextId]
            /\ data' = [data EXCEPT ![nextId] = obsLabel]
            /\ nextId' = nextId + 1
            /\ obsNode' = nextId
       ELSE /\ obsNode' = GetNode(obsLabel)
            /\ UNCHANGED << nodes, data, nextId >>
    /\ UNCHANGED << children, root, lockVars, callVars, histVars, events_tx,
                    rxAlive, events, obsCount, obsLabel, obsContains, readerVars >>

\* get_node(obsLabel): one lookup under nodes.read(); the handle is kept
SampleGetNode ==
    /\ regWriter = NoThread
    /\ obsLabel # NoLabel
    /\ obsNode' = GetNode(obsLabel)
    /\ UNCHANGED << graphVars, lockVars, callVars, histVars, events_tx, rxAlive,
                    events, obsCount, obsLabel, obsContains, readerVars >>

\* ----------------------------------------------------------------- reader
\* a reader thread whose queries take their read lock in a step of its own;
\* the answer of a registry query goes to its caller and is not kept
ReaderIdle ==
    /\ rdPc = "idle"
    /\ TotalStarted + reads < MaxCalls
    /\ reads' = reads + 1

\* node_count(), contains(L), get_node(L): entered
RdRegCall ==
    /\ ReaderIdle
    /\ rdPc' = "reg_lock"
    /\ UNCHANGED << graphVars, lockVars, callVars, histVars, events_tx, rxAlive,
                    events, obsCount, obsLabel, obsContains, obsNode,
                    regReader, nodeReader, removals >>

\* self.nodes.read().unwrap()
RdRegLock ==
    /\ rdPc = "reg_lock"
    /\ regWriter = NoThread
    /\ regReader' = TRUE
    /\ rdPc' = "reg_read"
    /\ UNCHANGED << graphVars, lockVars, callVars, histVars, events_tx, rxAlive,
                    events, obsCount, obsLabel, obsContains, obsNode,
                    reads, nodeReader, removals >>

\* .len() / .contains_key(content) / .get(content).cloned(); the read guard
\* is dropped at the end of the statement
RdRegReadKeepsGuard ==
    /\ rdPc = "reg_read"
    /\ regReader
    /\ rdPc' = "kids_lock"
    /\ UNCHANGED << graphVars, lockVars, callVars, histVars, events_tx, rxAlive,
                    events, obsCount, obsLabel, obsContains, obsNode,
                    reads, regReader, nodeReader, removals >>
RdRegRead ==
    /\ rdPc = "reg_read"
    /\ regReader
    /\ regReader' = FALSE
    /\ rdPc' = "idle"
    /\ UNCHANGED << graphVars, lockVars, callVars, histVars, events_tx, rxAlive,
                    events, obsCount, obsLabel, obsContains, obsNode,
                    reads, nodeReader, removals >>

\* get_root().get_children(): entered; get_root takes no lock
RdKidsCall ==
    /\ ReaderIdle
    /\ rdPc' = "kids_lock"
    /\ UNCHANGED << graphVars, lockVars, callVars, histVars, events_tx, rxAlive,
                    events, obsCount, obsLabel, obsContains, obsNode,
                    regReader, nodeReader, removals >>

\* the read lock handed out although a writer holds the list
RdKidsLockIgnoresWriter ==
    /\ rdPc = "kids_lock"
    /\ nodeReader' = GetRoot
    /\ rdPc' = "kids_read"
    /\ UNCHANGED << graphVars, lockVars, callVars, histVars, events_tx, rxAlive,
                    events, obsCount, obsLabel, obsContains, obsNode,
                    reads, regReader, removals >>

\* Node::get_children: self.children.read().unwrap()
RdKidsLock ==
    /\ rdPc = "kids_lock"
    /\ nodeWriter[GetRoot] = NoThread
    /\ nodeReader' = GetRoot
    /\ rdPc' = "kids_read"
    /\ UNCHANGED << graphVars, lockVars, callVars, histVars, events_tx, rxAlive,
                    events, obsCount, obsLabel, obsContains, obsNode,
                    reads, regReader, removals >>

\* Node::get_children: .iter().filter_map(|weak| weak.upgrade()).collect();
\* the read guard is dropped at the end of the statement
RdKidsReadLeaksGuard ==
    /\ rdPc = "kids_read"
    /\ nodeReader = GetRoot
    /\ rdPc' = "idle"
    /\ UNCHANGED << graphVars, lockVars, callVars, histVars, events_tx, rxAlive,
                    events, obsCount, obsLabel, obsContains, obsNode,
                    reads, regReader, nodeReader, removals >>
RdKidsRead ==
    /\ rdPc = "kids_read"
    /\ nodeReader = GetRoot
    /\ nodeReader' = NoNode
    /\ rdPc' = "idle"
    /\ UNCHANGED << graphVars, lockVars, callVars, histVars, events_tx, rxAlive,
                    events, obsCount, obsLabel, obsContains, obsNode,
                    reads, regReader, removals >>

\* what the get_children call that returns in this step hands to the reader
ObserveKids ==
    /\ obsKids' = [i \in 1..Len(GetChildren(GetRoot)) |->
                      GetData(GetChildren(GetRoot)[i])]
    /\ UNCHANGED << sent, dupAtEntry, recvd >>

\* graph.nodes.write().unwrap().remove(L): the entry of a label other than
\* "root" is taken out of the registry directly, which the public
\* operations never do
RemoveEntry(L) ==
    /\ L # "root"
    /\ removals < MaxRemovals
    /\ regWriter = NoThread
    /\ ~regReader
    /\ nodes[L] # NoNode
    /\ nodes' = [nodes EXCEPT ![L] = NoNode]
    /\ removals' = removals + 1
    /\ UNCHANGED << data, children, nextId, root, lockVars, callVars, histVars,
                    events_tx, rxAlive, events, obsCount, obsLabel, obsContains,
                    obsNode, rdPc, reads, regReader, nodeReader >>

\* ---------------------------------------------------------- specifications
\* one step of some add_edge call
AddEdgeStep ==
    \/ \E t \in Threads, e \in Edges :
          Call(t, e[1], e[2]) /\ UNCHANGED traceVars
    \/ \E t \in Threads : GocLock(t) /\ UNCHANGED traceVars
    \/ \E t \in Threads : GocEntry(t) /\ UNCHANGED traceVars
    \/ \E t \in Threads : NodeSend(t) /\ UNCHANGED traceVars
    \/ \E t \in Threads : ChLock(t) /\ UNCHANGED traceVars
    \/ \E t \in Threads : ChScan(t) /\ UNCHANGED traceVars
    \/ \E t \in Threads : EdgeSend(t) /\ UNCHANGED traceVars

\* concurrent add_edge callers and a receiver that may be dropped
Next ==
    \/ AddEdgeStep
    \/ DropReceiver /\ UNCHANGED traceVars

Spec == Init /\ [][Next]_vars

\* Graph::new_without_events: events_tx is None, nothing is ever sent
InitNoEvents == Init /\ ~events_tx

\* one step of some add_edge call on a graph without events
AddEdgeStepNoEvents ==
    \/ \E t \in Threads, e \in Edges :
          Call(t, e[1], e[2]) /\ UNCHANGED traceVars
    \/ \E t \in Threads : GocLock(t) /\ UNCHANGED traceVars
    \/ \E t \in Threads : GocEntry(t) /\ UNCHANGED traceVars
    \/ \E t \in Threads : ChLock(t) /\ UNCHANGED traceVars
    \/ \E t \in Threads : ChScan(t) /\ UNCHANGED traceVars

\* concurrent add_edge callers on a graph without events, and a reader
\* sampling node_count()
NextCount ==
    \/ AddEdgeStepNoEvents
    \/ SampleNodeCount /\ UNCHANGED traceVars

SpecCount == InitNoEvents /\ [][NextCount]_vars

\* concurrent add_edge callers on a graph without events, and a reader
\* calling contains() and get_node()
NextLookup ==
    \/ AddEdgeStepNoEvents
    \/ \E L \in Labels : SampleContains(L) /\ UNCHANGED traceVars
    \/ SampleGetNode /\ UNCHANGED traceVars

SpecLookup == InitNoEvents /\ [][NextLookup]_vars

\* the record of a step: what the thread that moved has sent in its call so
\* far, and whether its edge was already there when it entered add_edge; a
\* call that returns leaves no record behind
Record ==
    /\ sent' = [t \in Threads |->
                  IF pc'[t] = "idle" THEN << >>
                  ELSE IF pc'[t] # pc[t] /\ Len(events') > Len(events)
                       THEN Append(sent[t], events'[Len(events')])
                       ELSE sent[t]]
    /\ dupAtEntry' = [t \in Threads |->
                  IF pc'[t] = "idle" THEN FALSE
                  ELSE IF pc[t] = "idle" THEN HasEdge(argP'[t], argC'[t])
                       ELSE dupAtEntry[t]]
    /\ obsKids' = obsKids
    /\ recvd' = recvd

\* Graph::new with the receiver kept alive by its owner
InitLive == Init /\ events_tx

\* one step of some add_edge call, recorded
AddEdgeStepRecorded ==
    \/ \E t \in Threads, e \in Edges : Call(t, e[1], e[2]) /\ Record
    \/ \E t \in Threads : GocLock(t) /\ Record
    \/ \E t \in Threads : GocEntry(t) /\ Record
    \/ \E t \in Threads : NodeSend(t) /\ Record
    \/ \E t \in Threads : ChLock(t) /\ Record
    \/ \E t \in Threads : ChScan(t) /\ Record
    \/ \E t \in Threads : EdgeSend(t) /\ Record

\* concurrent add_edge callers on a graph whose events are received
SpecLive == InitLive /\ [][AddEdgeStepRecorded]_vars

\* one step of the reader
ReaderStep ==
    \/ RdRegCall /\ UNCHANGED traceVars
    \/ RdRegLock /\ UNCHANGED traceVars
    \/ RdRegRead /\ UNCHANGED traceVars
    \/ RdKidsCall /\ UNCHANGED traceVars
    \/ RdKidsLock /\ UNCHANGED traceVars
    \/ RdKidsRead /\ UNCHANGED traceVars

\* concurrent add_edge callers and a reader, every lock an own step
NextLocks ==
    \/ AddEdgeStepNoEvents
    \/ ReaderStep

SpecLocks == InitNoEvents /\ [][NextLocks]_vars

\* the steps of one add_edge call once it is entered
CallSteps(t) ==
    (GocLock(t) \/ GocEntry(t) \/ ChLock(t) \/ ChScan(t)) /\ UNCHANGED traceVars

\* the steps of a query once it is entered
QuerySteps ==
    (RdRegLock \/ RdRegRead \/ RdKidsLock \/ RdKidsRead) /\ UNCHANGED traceVars

\* fair scheduling: a thread that can take its next step eventually does;
\* nobody is obliged to enter a call
SpecFair ==
    /\ SpecLocks
    /\ \A t \in Threads : WF_vars(CallSteps(t))
    /\ WF_vars(QuerySteps)

\* the labels other than "root" that callers make a child of root: the
\* entries whose removal a reader of root's children can notice
RootChildLabels == {e[2] : e \in {x \in Edges : x[1] = "root"}} \ {"root"}

\* concurrent add_edge callers, a reader of root's children, and entries
\* removed from the registry behind the graph's back
NextRemove ==
    \/ AddEdgeStepNoEvents
    \/ \E L \in RootChildLabels : RemoveEntry(L) /\ UNCHANGED traceVars
    \/ RdKidsCall /\ UNCHANGED traceVars
    \/ RdKidsLock /\ UNCHANGED traceVars
    \/ RdKidsRead /\ ObserveKids

SpecRemove == InitNoEvents /\ [][NextRemove]_vars

\* concurrent add_edge callers on a graph built by Graph::new whose receiver
\* is kept, or by Graph::new_without_events
SpecNoDrop == Init /\ [][AddEdgeStep]_vars

\* the owner of the receiver takes the oldest event off the queue: rx.recv()
Recv ==
    /\ rxAlive
    /\ recvd < Len(events)
    /\ recvd' = recvd + 1
    /\ UNCHANGED << graphVars, lockVars, callVars, histVars, obsVars,
                    events_tx, rxAlive, events, sent, dupAtEntry, obsKids >>

\* the events sent and not yet received
Queue == SubSeq(events, recvd + 1, Len(events))

\* one step of some add_edge("root", X) call
FanOutStep ==
    \/ \E t \in Threads, e \in FanOut :
          Call(t, e[1], e[2]) /\ UNCHANGED traceVars
    \/ \E t \in Threads : GocLock(t) /\ UNCHANGED traceVars
    \/ \E t \in Threads : GocEntry(t) /\ UNCHANGED traceVars
    \/ \E t \in Threads : NodeSend(t) /\ UNCHANGED traceVars
    \/ \E t \in Threads : ChLock(t) /\ UNCHANGED traceVars
    \/ \E t \in Threads : ChScan(t) /\ UNCHANGED traceVars
    \/ \E t \in Threads : EdgeSend(t) /\ UNCHANGED traceVars

\* concurrent callers that each add a child to root, and a receiver that
\* takes events off the queue at its own pace or not at all
NextFanOut ==
    \/ FanOutStep
    \/ Recv

SpecFanOut == InitLive /\ [][NextFanOut]_vars

\* one step of a query: node_count(), contains(L), get_node(L), or a step
\* of get_root().get_children()
QueryStep ==
    \/ SampleNodeCount /\ UNCHANGED traceVars
    \/ \E L \in Labels : SampleContains(L) /\ UNCHANGED traceVars
    \/ SampleGetNode /\ UNCHANGED traceVars
    \/ RdKidsCall /\ UNCHANGED traceVars
    \/ RdKidsLock /\ UNCHANGED traceVars
    \/ RdKidsRead /\ ObserveKids

\* one step of some add_edge("root", "A") call
RootChildStep ==
    \/ \E t \in Threads : Call(t, "root", "A") /\ UNCHANGED traceVars
    \/ \E t \in Threads : GocLock(t) /\ UNCHANGED traceVars
    \/ \E t \in Threads : GocEntry(t) /\ UNCHANGED traceVars
    \/ \E t \in Threads : NodeSend(t) /\ UNCHANGED traceVars
    \/ \E t \in Threads : ChLock(t) /\ UNCHANGED traceVars
    \/ \E t \in Threads : ChScan(t) /\ UNCHANGED traceVars
    \/ \E t \in Threads : EdgeSend(t) /\ UNCHANGED traceVars

\* concurrent add_edge("root", "A") callers on a graph with events, and a
\* reader that makes every kind of query, about absent labels too
NextQueries ==
    \/ RootChildStep
    \/ QueryStep

SpecQueries == InitLive /\ [][NextQueries]_vars

\* concurrent add_edge callers on a graph without events, and a reader
\* calling get_root().get_children(), every lock an own step
NextSnapshot ==
    \/ AddEdgeStepNoEvents
    \/ RdKidsCall /\ UNCHANGED traceVars
    \/ RdKidsLock /\ UNCHANGED traceVars
    \/ RdKidsRead /\ ObserveKids

SpecSnapshot == InitNoEvents /\ [][NextSnapshot]_vars

\* get_root().get_children() as one step: the list is read under its read
\* lock, which no writer holds then
SampleKids ==
    /\ nodeWriter[GetRoot] = NoThread
    /\ UNCHANGED << graphVars, lockVars, callVars, histVars, events_tx, rxAlive,
                    events, obsVars >>

\* concurrent add_edge callers on a graph without events, and a reader
\* calling get_root().get_children() again and again
NextAppend ==
    \/ AddEdgeStepNoEvents
    \/ SampleKids /\ ObserveKids

SpecAppend == InitNoEvents /\ [][NextAppend]_vars

\* ------------------------------------------------------------- properties
AllIdle == \A t \in Threads : pc[t] = "idle"

\* no send can have failed: events are disabled or the receiver is alive
NoSendFailure == ~events_tx \/ rxAlive

\* add_edge(e) calls that have returned, whatever the result
Returned(e) == SumOver(returned, {e} \X Results)

\* the entries of p's children list that resolve to node c
RefCount(p, c) ==
    Cardinality({i \in 1..Len(children[p]) : Upgrade(children[p][i]) = c})

\* the NodeAdded(L) events placed on the channel
NodeAddedCount(L) ==
    Cardinality({i \in 1..Len(events) : events[i] = <<"NodeAdded", L>>})

\* C1: once every add_edge call has returned and no send has failed, for
\* every edge (P, C) that was asked for, exactly one add_edge(P, C) call
\* returned Ok and all the others returned the DuplicateEdge error.
C1_ExactlyOneCallSucceeds ==
    \A e \in Edges :
        (AllIdle /\ NoSendFailure /\ started[e] >= 1) =>
            /\ returned[<<e, "Ok">>] = 1
            /\ returned[<<e, "DuplicateEdge">>] = started[e] - 1

\* C2: an add_edge call whose scan finds the child already in the parent's
\* children list returns the DuplicateEdge error and leaves the children
\* lists and node_count() unchanged.
C2_DuplicateIsAnError ==
    [][\A t \in Threads :
         (pc[t] = "ch_scan" /\ IsDuplicate(parent[t], child[t]) /\ pc'[t] = "idle") =>
            /\ returned'[<< <<argP[t], argC[t]>>, "DuplicateEdge" >>]
                 = returned[<< <<argP[t], argC[t]>>, "DuplicateEdge" >>] + 1
            /\ children' = children
            /\ NodeCount' = NodeCount]_vars

\* C3: no children list ever holds two entries that resolve to the same
\* node, and once an add_edge(P, C) call has returned, P's children list
\* holds exactly one entry resolving to C.
C3_ExactlyOneReference ==
    /\ \A n \in NodeIds : \A i, j \in 1..Len(children[n]) :
          (i # j /\ Upgrade(children[n][i]) # NoNode)
              => Upgrade(children[n][i]) # Upgrade(children[n][j])
    /\ \A e \in Edges :
          Returned(e) >= 1 =>
              /\ nodes[e[1]] # NoNode
              /\ nodes[e[2]] # NoNode
              /\ RefCount(nodes[e[1]], nodes[e[2]]) = 1

\* C4: for every label, at most one get_or_create_node call saw is_new =
\* true, exactly one did once a label other than "root" is in the registry,
\* every node a get_or_create_node call returned or holds is the registry's
\* node of that label, and no two nodes carry the same label.
C4_CreatedExactlyOnce ==
    /\ \A L \in Labels :
          /\ isNewCount[L] <= 1
          /\ goc[L] \subseteq {nodes[L]}
          /\ (L # "root" /\ nodes[L] # NoNode) => isNewCount[L] = 1
    /\ \A t \in Threads :
          /\ parent[t] # NoNode => parent[t] = nodes[argP[t]]
          /\ child[t] # NoNode => child[t] = nodes[argC[t]]
    /\ \A n, m \in NodeIds :
          (data[n] # NoLabel /\ data[n] = data[m]) => n = m

\* two calls are running at once and both hold the one node of label "A",
\* which was created once
C4_Witness ==
    /\ nodes["A"] # NoNode
    /\ isNewCount["A"] = 1
    /\ \E t, u \in Threads :
          /\ t # u
          /\ nodes["A"] \in {parent[t], child[t]}
          /\ nodes["A"] \in {parent[u], child[u]}

\* C5: at most one NodeAdded(L) event is ever placed on the channel, and
\* with a live receiver exactly one is there once L is in the registry
\* and the call that created it is past its send.
C5_OneNodeAddedPerLabel ==
    \A L \in Labels :
        /\ NodeAddedCount(L) <= 1
        /\ ( /\ events_tx /\ rxAlive
             /\ L # "root" /\ nodes[L] # NoNode
             /\ \A t \in Threads : ~(pc[t] \in {"p_send", "c_send"} /\ Content(t) = L) )
           => NodeAddedCount(L) = 1

\* label "A" was referenced by two returned calls, as a child and as a
\* parent, with a live receiver, and its NodeAdded event is on the channel
C5_Witness ==
    /\ events_tx /\ rxAlive
    /\ Returned(<<"root", "A">>) >= 1
    /\ Returned(<<"A", "B">>) >= 1
    /\ NodeAddedCount("A") = 1

\* C6: node_count() never decreases, neither between two steps of the
\* graph nor between two samples of a reader, and it is at least 1.
C6_NodeCountMonotonic ==
    /\ [](NodeCount >= 1)
    /\ [][NodeCount' >= NodeCount /\ obsCount' >= obsCount]_vars

\* a reader sampled node_count() as 2 and the graph has grown to 3 since
C6_Witness == obsCount = 2 /\ NodeCount = 3

\* C7: once contains(L) has answered true, get_node(L) never answers None,
\* and successive get_node(L) answers are the same node.
C7_ContainsThenGetNode ==
    /\ [](obsContains => obsNode # NoNode)
    /\ [][(obsLabel' = obsLabel /\ obsNode \in NodeIds /\ obsNode' # NotAsked)
             => obsNode' = obsNode]_vars

\* the reader saw contains("A") = true and then got the node of "A" while a
\* writer was inside add_edge
C7_Witness ==
    /\ obsLabel = "A" /\ obsContains /\ obsNode = nodes["A"]
    /\ \E t \in Threads : pc[t] # "idle"

\* C8: the registry always maps "root" to the node get_root() returns, whose
\* label is "root"; before any add_edge call node_count() is 1 and root has
\* no children.
C8_RootAlwaysRegistered ==
    /\ nodes["root"] # NoNode
    /\ nodes["root"] = GetRoot
    /\ GetData(GetRoot) = "root"
    /\ TotalStarted = 0 => (NodeCount = 1 /\ GetChildren(GetRoot) = << >>)

\* add_edge calls, a self-loop on root among them, have returned and created
\* another node
C8_Witness ==
    /\ Returned(<<"root", "root">>) >= 1
    /\ nodes["A"] # NoNode
    /\ nodes["root"] = GetRoot

\* C9: once all add_edge("root","root") calls have returned and no send has
\* failed, exactly one of them returned Ok and the others failed; root's
\* children list is then exactly [root], and node_count() is still 1 when
\* no other edge was asked for.
C9_SelfLoopSucceedsOnce ==
    LET rr == <<"root", "root">> IN
    (AllIdle /\ NoSendFailure /\ started[rr] >= 1) =>
        /\ returned[<<rr, "Ok">>] = 1
        /\ Returned(rr) - returned[<<rr, "Ok">>] = started[rr] - 1
        /\ RefCount(GetRoot, GetRoot) = 1
        /\ (TotalStarted = started[rr]) =>
              (NodeCount = 1 /\ GetChildren(GetRoot) = <<GetRoot>>)

\* C10: once add_edge(root, A), add_edge(A, B) and add_edge(B, A) have all
\* been called and every call has returned without a send failure, none of
\* them returned an error, get_children() of A is [B] and get_children() of
\* B is [A], and A is a child of root.
C10_CycleIsBuilt ==
    LET cyc == {<<"root", "A">>, <<"A", "B">>, <<"B", "A">>} IN
    (AllIdle /\ NoSendFailure /\ \A e \in cyc : started[e] >= 1) =>
        /\ \A e \in cyc : returned[<<e, "Ok">>] = started[e]
        /\ GetChildren(nodes["A"]) = <<nodes["B"]>>
        /\ GetChildren(nodes["B"]) = <<nodes["A"]>>
        /\ RefCount(GetRoot, nodes["A"]) = 1

\* the three edges of the cycle were each added by one call, all returned
C10_Witness ==
    /\ AllIdle /\ NoSendFailure
    /\ \A e \in {<<"root", "A">>, <<"A", "B">>, <<"B", "A">>} : returned[<<e, "Ok">>] = 1
    /\ GetChildren(nodes["A"]) = <<nodes["B"]>>
    /\ GetChildren(nodes["B"]) = <<nodes["A"]>>

\* ------------------------------------------------------ events of a call
\* the EdgeAdded(p, c) events placed on the channel
EdgeAddedCount(p, c) ==
    Cardinality({i \in 1..Len(events) : events[i] = <<"EdgeAdded", p, c>>})

\* the events an add_edge(p, c) call can send, in the order of its code
CallEvents(p, c) == << <<"NodeAdded", p>>, <<"NodeAdded", c>>, <<"EdgeAdded", p, c>> >>

\* s is f with some elements left out
RECURSIVE IsSubSeq(_, _)
IsSubSeq(s, f) ==
    IF s = << >> THEN TRUE
    ELSE IF f = << >> THEN FALSE
    ELSE IF Head(s) = Head(f) THEN IsSubSeq(Tail(s), Tail(f))
    ELSE IsSubSeq(s, Tail(f))

\* what thread t's call has sent once the step under way is done
SentAfterStep(t) ==
    IF pc'[t] # pc[t] /\ Len(events') > Len(events)
    THEN Append(sent[t], events'[Len(events')])
    ELSE sent[t]

\* thread t's scan finds the edge already there and the call returns
DetectsDuplicate(t) ==
    /\ pc[t] = "ch_scan"
    /\ IsDuplicate(parent[t], child[t])
    /\ pc'[t] = "idle"

\* C11: on a fresh graph whose receiver is alive, once the single call
\* add_edge("A", "B") has returned the channel holds exactly NodeAdded(A),
\* NodeAdded(B), EdgeAdded(A, B), in this order.
C11_ThreeEventsInOrder ==
    (TotalStarted = 1 /\ started[<<"A", "B">>] = 1 /\ AllIdle) =>
        events = CallEvents("A", "B")

\* the single call add_edge("A", "B") has returned Ok and three events are
\* on the channel
C11_Witness ==
    /\ TotalStarted = 1
    /\ returned[<< <<"A", "B">>, "Ok" >>] = 1
    /\ AllIdle
    /\ Len(events) = 3

\* C12: at every step of every add_edge(P, C) call, whatever the other
\* callers do, the events this call has sent are, in the order they were
\* put on the channel, NodeAdded(P), NodeAdded(C), EdgeAdded(P, C) with
\* some of them left out.
C12_EventsOfACallInOrder ==
    [][\A t \in Threads :
         pc[t] # "idle" =>
            /\ IsSubSeq(SentAfterStep(t), CallEvents(argP[t], argC[t]))
            /\ IsSubSeq(SentAfterStep(t), events')]_vars

\* a call add_edge("A", "B") has sent NodeAdded(A) and NodeAdded(B), and
\* the event of another call sits between the two on the channel
C12_Witness ==
    \E t \in Threads :
        /\ pc[t] = "e_send"
        /\ sent[t] = << <<"NodeAdded", "A">>, <<"NodeAdded", "B">> >>
        /\ \E i, j, k \in 1..Len(events) :
              /\ i < j /\ j < k
              /\ events[i] = <<"NodeAdded", "A">>
              /\ events[j][1] = "EdgeAdded"
              /\ events[k] = <<"NodeAdded", "B">>

\* C13 as stated: an add_edge call whose scan finds a duplicate has sent no
\* event at all, neither NodeAdded nor EdgeAdded, under any interleaving.
C13_DuplicateCallEmitsNothing ==
    [][\A t \in Threads : DetectsDuplicate(t) => SentAfterStep(t) = << >>]_vars

\* C13: an add_edge call whose scan finds a duplicate sends no EdgeAdded
\* event, and sends no event at all when the edge was already there as the
\* call entered; a NodeAdded event of such a call is for a node the call
\* created before a concurrent call inserted the same edge.
C13_DuplicateCallEmitsNoEdgeAdded ==
    [][\A t \in Threads :
         DetectsDuplicate(t) =>
            /\ events' = events
            /\ \A i \in 1..Len(sent[t]) : sent[t][i][1] = "NodeAdded"
            /\ dupAtEntry[t] => sent[t] = << >>]_vars

\* a call that created node "A" and sent NodeAdded(A) is about to find that
\* a concurrent call has inserted its edge root -> A
C13_Witness ==
    \E t \in Threads :
        /\ pc[t] = "ch_scan"
        /\ argP[t] = "root" /\ argC[t] = "A"
        /\ IsDuplicate(parent[t], child[t])
        /\ sent[t] = << <<"NodeAdded", "A">> >>

\* C14: with a live receiver and every call returned, each (P, C) has as
\* many EdgeAdded(P, C) events on the channel as P's children list has
\* references to C, which is at most one, and the labels of the NodeAdded
\* events are the labels of the registry other than "root".
C14_EventsMatchGraph ==
    AllIdle =>
        /\ \A p, c \in Labels :
              /\ EdgeAddedCount(p, c) = (IF HasEdge(p, c) THEN 1 ELSE 0)
              /\ HasEdge(p, c) => RefCount(nodes[p], nodes[c]) = 1
        /\ {L \in Labels : NodeAddedCount(L) >= 1}
              = {L \in Labels : nodes[L] # NoNode} \ {"root"}
        /\ Len(events) = SumOver([L \in Labels |-> NodeAddedCount(L)], Labels)
              + SumOver([e \in Labels \X Labels |-> EdgeAddedCount(e[1], e[2])],
                        Labels \X Labels)

\* every call has returned; the cycle root -> A -> B -> A is built and a
\* duplicate add_edge was among the calls
C14_Witness ==
    /\ AllIdle
    /\ TotalStarted = 3
    /\ HasEdge("root", "A") /\ HasEdge("A", "B")
    /\ started[<<"root", "A">>] = 2
    /\ Len(events) = 4

\* C15: whenever an add_edge(P, C) call has returned an event-delivery
\* error (the receiver was dropped), the edge is in the graph: P's children
\* list holds a reference to C.
C15_DeliveryErrorAfterCommit ==
    \A e \in Edges :
        (returned[<<e, "NodeAddedSendErr">>] + returned[<<e, "EdgeAddedSendErr">>] >= 1)
            => HasEdge(e[1], e[2])

\* C16: get_or_create_node never fails, a dropped receiver included: no
\* add_edge call ever returns the error of a get_or_create_node call.
C16_GetOrCreateNeverFails ==
    \A e \in Edges : returned[<<e, "NodeAddedSendErr">>] = 0

\* ------------------------------------------------------------------ locks
\* the node locks thread t holds
NodeLocksOf(t) == {n \in NodeIds : nodeWriter[n] = t}

\* thread t waits for a lock that somebody holds
WriterBlocked(t) ==
    \/ pc[t] \in {"p_lock", "c_lock"} /\ (regWriter # NoThread \/ regReader)
    \/ pc[t] = "ch_lock"
          /\ (nodeWriter[parent[t]] # NoThread \/ nodeReader = parent[t])

\* the reader waits for a lock that a writer holds
ReaderBlocked ==
    \/ rdPc = "reg_lock" /\ regWriter # NoThread
    \/ rdPc = "kids_lock" /\ nodeWriter[GetRoot] # NoThread

\* some call is under way and every call under way waits for a lock
AllBlocked ==
    /\ rdPc # "idle" \/ \E t \in Threads : pc[t] # "idle"
    /\ rdPc # "idle" => ReaderBlocked
    /\ \A t \in Threads : pc[t] # "idle" => WriterBlocked(t)

\* C17: a caller that holds the registry lock neither holds nor waits for a
\* children lock, a caller holds at most one children lock, and a caller
\* that holds a children lock waits for no lock; this for add_edge callers
\* and for the reader's registry queries and get_children.
C17_LockDiscipline ==
    /\ \A t \in Threads :
          /\ regWriter = t =>
                (NodeLocksOf(t) = {} /\ pc[t] \in {"p_entry", "c_entry"})
          /\ Cardinality(NodeLocksOf(t)) <= 1
          /\ NodeLocksOf(t) # {} => pc[t] = "ch_scan"
    /\ regReader => (nodeReader = NoNode /\ rdPc = "reg_read")
    /\ nodeReader # NoNode => rdPc = "kids_read"

\* one caller holds the registry lock, another holds the children lock of
\* root, and the reader waits for root's children lock
C17_Witness ==
    \E t, u \in Threads :
        /\ t # u
        /\ regWriter = t
        /\ nodeWriter[GetRoot] = u
        /\ rdPc = "kids_lock"

\* C18: under fair scheduling the finitely many add_edge calls and queries
\* that are entered all return, so that from some point on no call is under
\* way, and in no reachable state does every call under way wait for a lock.
C18_EveryCallReturns ==
    /\ <>[](AllIdle /\ rdPc = "idle")
    /\ [](~AllBlocked)

\* a caller waits for root's children lock, which the reader holds, while
\* another caller is inside the registry's critical section
C18_Witness ==
    /\ rdPc = "kids_read"
    /\ \E t, u \in Threads :
          /\ pc[t] = "ch_lock" /\ WriterBlocked(t)
          /\ pc[u] \in {"p_entry", "c_entry"}

\* ---------------------------------------------------------- dead references
\* node w was taken out of the registry and no caller holds a handle to it
Removed(w) ==
    /\ w # GetRoot
    /\ nodes[data[w]] # w
    /\ \A t \in Threads : parent[t] # w /\ child[t] # w
    /\ obsNode # w

\* the labels of a sequence of nodes
LabelsOf(seq) == [i \in 1..Len(seq) |-> data[seq[i]]]

\* C19: when entries of the registry were removed directly, a get_children()
\* call on root answers, in insertion order, the children that were not
\* removed or that a caller still holds, and leaves out every removed child
\* nobody holds; it answers without failing.
C19_DeadReferencesFiltered ==
    [][(rdPc = "kids_read" /\ rdPc' = "idle") =>
          obsKids' = LabelsOf(SelectSeq(children[GetRoot], LAMBDA w : ~Removed(w)))]_vars

\* root's children list is [A, root], A was removed from the registry and
\* nobody holds it, and get_children() on root answered [root]
C19_Witness ==
    /\ Len(children[GetRoot]) = 2
    /\ data[children[GetRoot][1]] = "A"
    /\ Removed(children[GetRoot][1])
    /\ children[GetRoot][2] = GetRoot
    /\ rdPc = "idle"
    /\ obsKids = <<"root">>

\* ------------------------------------------------------------- ownership
\* the nodes of the registry other than root
Registered == {nodes[L] : L \in Labels} \ {NoNode, GetRoot}

\* C20: a step that adds an edge adds no owner to any node, and whenever
\* no add_edge call is under way every node of the registry other than root
\* has one owner, the registry, plus one if the observer holds its handle.
C20_ChildrenAreWeak ==
    /\ [](AllIdle => \A n \in Registered :
              StrongCount(n) = (IF obsNode = n THEN 2 ELSE 1))
    /\ [][children' # children =>
              \A n \in NodeIds : StrongCount(n)' <= StrongCount(n)]_vars

\* the cycle A -> B -> A is built, every call has returned, the observer
\* holds no handle and the registry is the one owner of A and of B
C20_Witness ==
    /\ AllIdle
    /\ obsNode \notin NodeIds
    /\ HasEdge("A", "B") /\ HasEdge("B", "A")
    /\ StrongCount(nodes["A"]) = 1
    /\ StrongCount(nodes["B"]) = 1

\* ------------------------------------------------------ shape of the graph
\* C21: the duplicate scan looks at one parent only: once add_edge(root, A)
\* and add_edge(B, A) have each returned, with no send failure, none of
\* them returned an error and the children lists of root and of B each
\* hold exactly one entry, both resolving to the one node of label A.
C21_DuplicateIsPerParent ==
    LET e1 == <<"root", "A">>
        e2 == <<"B", "A">> IN
    (Returned(e1) >= 1 /\ Returned(e2) >= 1) =>
        /\ returned[<<e1, "Ok">>] = Returned(e1)
        /\ returned[<<e2, "Ok">>] = Returned(e2)
        /\ nodes["A"] # NoNode /\ nodes["B"] # NoNode
        /\ RefCount(GetRoot, nodes["A"]) = 1
        /\ RefCount(nodes["B"], nodes["A"]) = 1
        /\ GetChildren(nodes["B"]) = <<nodes["A"]>>
        /\ \E i \in 1..Len(GetChildren(GetRoot)) :
              GetChildren(GetRoot)[i] = nodes["A"]

\* A is a child of root and of B, each edge added by one call, and a
\* second add_edge(B, A) call found its edge already there
C21_Witness ==
    /\ AllIdle
    /\ returned[<< <<"root", "A">>, "Ok" >>] = 1
    /\ returned[<< <<"B", "A">>, "Ok" >>] = 2
    /\ GetChildren(GetRoot) = <<nodes["A"]>>
    /\ GetChildren(nodes["B"]) = <<nodes["A"]>>

\* C22: add_edge(A, B) needs no path from root: once such a call has
\* returned, with no send failure, it returned no error, A and B are in the
\* registry and A's children list holds one entry resolving to B; when it
\* was the only edge asked for, node_count() is 3 and root has no children.
C22_DisconnectedComponent ==
    LET ab == <<"A", "B">> IN
    /\ Returned(ab) >= 1 =>
          /\ returned[<<ab, "Ok">>] = Returned(ab)
          /\ nodes["A"] # NoNode /\ nodes["B"] # NoNode
          /\ RefCount(nodes["A"], nodes["B"]) = 1
    /\ (AllIdle /\ started[ab] >= 1 /\ TotalStarted = started[ab]) =>
          /\ NodeCount = 3
          /\ GetChildren(GetRoot) = << >>
          /\ GetChildren(nodes["A"]) = <<nodes["B"]>>

\* one add_edge(A, B) call on a fresh graph has returned: A and B exist,
\* A -> B is there and nothing hangs from root
C22_Witness ==
    /\ AllIdle /\ TotalStarted = 1
    /\ returned[<< <<"A", "B">>, "Ok" >>] = 1
    /\ NodeCount = 3
    /\ GetChildren(GetRoot) = << >>
    /\ GetChildren(nodes["A"]) = <<nodes["B"]>>

\* C23: get_children() answers in insertion order: the answer for a node
\* changes only when an add_edge call inserts an edge under that node, and
\* then the inserted child is added at the end, after every child that was
\* there, whatever the other callers are doing.
C23_InsertionOrder ==
    [][\A n \in NodeIds :
          \/ GetChildren(n)' = GetChildren(n)
          \/ \E t \in Threads :
                /\ pc[t] = "ch_scan" /\ parent[t] = n
                /\ ~IsDuplicate(n, child[t])
                /\ GetChildren(n)' = Append(GetChildren(n), child[t])]_vars

\* root got A as a child first and itself second, and get_children() lists
\* them in that order
C23_Witness ==
    /\ Len(GetChildren(GetRoot)) = 2
    /\ GetChildren(GetRoot) = <<nodes["A"], GetRoot>>

\* ------------------------------------------------------- the event queue
\* the add_edge calls that inserted a new child under root
Inserted == {e \in FanOut : returned[<<e, "Ok">>] >= 1}

\* C24: with a receiver that takes events at its own pace or never, a
\* caller about to send is never made to wait, the queue loses nothing (it
\* changes only by a send putting an event at its end or by the receiver
\* taking its first event), and once the callers that added K new children
\* to root have all returned, 2K events were sent, all still queued if the
\* receiver took none.
C24_NoLossNoBlocking ==
    /\ [](\A t \in Threads :
            /\ pc[t] \in {"p_send", "c_send"} => ENABLED NodeSend(t)
            /\ pc[t] = "e_send" => ENABLED EdgeSend(t))
    /\ [][\/ Queue' = Queue
          \/ Queue # << >> /\ Queue' = Tail(Queue)
          \/ Len(events') = Len(events) + 1
               /\ Queue' = Append(Queue, events'[Len(events')])]_vars
    /\ [](AllIdle =>
            /\ Len(events) = 2 * Cardinality(Inserted)
            /\ Len(Queue) = 2 * Cardinality(Inserted) - recvd)

\* two callers added A and B to root at the same time (both NodeAdded events
\* were sent before either EdgeAdded), the receiver took nothing and the
\* queue holds the four events
C24_Witness ==
    /\ AllIdle /\ recvd = 0
    /\ Cardinality(Inserted) = 2
    /\ Len(Queue) = 4
    /\ Queue[1][1] = "NodeAdded" /\ Queue[2][1] = "NodeAdded"

\* the labels of an EdgeAdded event that get a NodeAdded event
Endpoints(ev) == {ev[2], ev[3]} \ {"root"}

\* a running call created the node of label L and has yet to send its
\* NodeAdded event
SendPending(L) ==
    \E t \in Threads : pc[t] \in {"p_send", "c_send"} /\ Content(t) = L

\* C25: on the channel, every EdgeAdded(P, C) event comes after the
\* NodeAdded event of each of its labels other than "root".
C25_NodeAddedBeforeEdgeAdded ==
    \A i \in 1..Len(events) :
        events[i][1] = "EdgeAdded" =>
            \A L \in Endpoints(events[i]) :
                \E j \in 1..(i - 1) : events[j] = <<"NodeAdded", L>>

\* C25, amended: when a call sends EdgeAdded(P, C), for each of its labels
\* other than "root" the one NodeAdded event is already on the channel, or
\* another call that created the node is still about to send it; and every
\* label of an EdgeAdded event on the channel has its NodeAdded there, before
\* or after, unless that other call still has to send it.
C25_NodeAddedSentOrPending ==
    /\ [][\A t \in Threads :
            (pc[t] = "e_send" /\ Len(events') = Len(events) + 1) =>
                \A L \in Endpoints(EdgeEvent(t)) :
                    \/ NodeAddedCount(L) = 1
                    \/ \E u \in Threads \ {t} :
                          pc[u] \in {"p_send", "c_send"} /\ Content(u) = L]_vars
    /\ [](\A i \in 1..Len(events) :
            events[i][1] = "EdgeAdded" =>
                \A L \in Endpoints(events[i]) :
                    NodeAddedCount(L) = 1 \/ SendPending(L))

\* EdgeAdded(root, A) of one call is on the channel before NodeAdded(A),
\* which the call that created A sent afterwards
C25_Witness ==
    \E i, j \in 1..Len(events) :
        /\ i < j
        /\ events[i] = <<"EdgeAdded", "root", "A">>
        /\ events[j] = <<"NodeAdded", "A">>

\* C26: events are sent after the change they report: whenever
\* NodeAdded(L) is on the channel, L is in the registry, and whenever
\* EdgeAdded(P, C) is on the channel, P and C are in the registry and P's
\* children list holds an entry resolving to C's node.
C26_EventsArePostCommit ==
    \A i \in 1..Len(events) :
        /\ events[i][1] = "NodeAdded" => nodes[events[i][2]] # NoNode
        /\ events[i][1] = "EdgeAdded" => HasEdge(events[i][2], events[i][3])

\* EdgeAdded(A, B) and the NodeAdded events of A and B are on the channel
\* while another call is still running
C26_Witness ==
    /\ EdgeAddedCount("A", "B") = 1
    /\ NodeAddedCount("A") = 1 /\ NodeAddedCount("B") = 1
    /\ HasEdge("A", "B")
    /\ ~AllIdle

\* C27: once an add_edge(P, C) call has returned, whatever it returned,
\* both P and C are in the registry.
C27_BothEndpointsRegistered ==
    \A e \in Edges :
        Returned(e) >= 1 => (nodes[e[1]] # NoNode /\ nodes[e[2]] # NoNode)

\* the labels passed to add_edge so far, as parent or as child
LabelsAsked ==
    UNION {{e[1], e[2]} : e \in {x \in Calls : started[x] >= 1}}

\* C28: once every add_edge call has returned, on a graph whose receiver
\* is alive or whose events are disabled, node_count() is the number of
\* distinct labels among "root" and the labels passed to add_edge, the
\* calls that found their edge already there included.
C28_NodeCountIsDistinctLabels ==
    AllIdle => NodeCount = Cardinality({"root"} \cup LabelsAsked)

\* add_edge(A, B) was called twice and add_edge(B, A) once, all have
\* returned and node_count() is 3
C28_Witness ==
    /\ AllIdle
    /\ started[<<"A", "B">>] = 2
    /\ started[<<"B", "A">>] = 1
    /\ NodeCount = 3

\* C29: NodeAdded("root") is never sent; one add_edge(root, root) call on
\* a fresh graph with events puts exactly EdgeAdded(root, root) on the
\* channel, and one add_edge(root, A) call exactly NodeAdded(A) followed by
\* EdgeAdded(root, A).
C29_NoNodeAddedForRoot ==
    /\ NodeAddedCount("root") = 0
    /\ (events_tx /\ AllIdle /\ TotalStarted = 1) =>
          /\ started[<<"root", "root">>] = 1 =>
                events = << <<"EdgeAdded", "root", "root">> >>
          /\ started[<<"root", "A">>] = 1 =>
                events = << <<"NodeAdded", "A">>, <<"EdgeAdded", "root", "A">> >>

\* one add_edge(root, A) call on a fresh graph has returned and the channel
\* holds its two events, none of them about root's node
C29_Witness ==
    /\ events_tx /\ AllIdle /\ TotalStarted = 1
    /\ started[<<"root", "A">>] = 1
    /\ events = << <<"NodeAdded", "A">>, <<"EdgeAdded", "root", "A">> >>

\* ---------------------------------------------------------------- queries
\* C30: a step of node_count, contains, get_node, get_root or get_children
\* leaves the registry, every children list and the channel as they were
\* and hands back an answer: the number of registered labels, whether the
\* label is registered (false for an absent one), the registered node (None
\* for an absent one, which stays absent), the labels of root's children.
C30_QueriesArePure ==
    [][pc' = pc =>
          /\ nodes' = nodes /\ data' = data /\ children' = children
          /\ root' = root /\ events' = events
          /\ obsCount' # obsCount =>
                obsCount' = Cardinality({L \in Labels : nodes[L] # NoNode})
          /\ <<obsLabel', obsContains'>> # <<obsLabel, obsContains>> =>
                obsContains' = (nodes[obsLabel'] # NoNode)
          /\ (obsNode' # obsNode /\ obsNode' # NotAsked) =>
                obsNode' = nodes[obsLabel]
          /\ (rdPc = "kids_read" /\ rdPc' = "idle") =>
                obsKids' = LabelsOf(GetChildren(root))]_vars

\* after an add_edge(root, A) call the reader was told that two labels are
\* registered, that root's children are [A], that B is not registered and
\* that there is no node of B; B is still absent and the channel still holds
\* the two events of the call
C30_Witness ==
    /\ obsCount = 2
    /\ obsKids = <<"A">>
    /\ obsLabel = "B" /\ ~obsContains /\ obsNode = NoNode
    /\ nodes["B"] = NoNode
    /\ events = << <<"NodeAdded", "A">>, <<"EdgeAdded", "root", "A">> >>

\* ------------------------------------------------- snapshots of a list
\* a call is about to insert a new edge from root to the node of label L
InsertPending(L) ==
    \E t \in Threads :
        /\ pc[t] \in {"ch_lock", "ch_scan"}
        /\ parent[t] = root /\ data[child[t]] = L
        /\ ~IsDuplicate(parent[t], child[t])

\* C31: a get_children() call on root that runs beside writers reads the
\* list while no writer is inside it and answers that list as it is at
\* that moment: a child whose insertion is still to come is not in the
\* answer unless its edge is already there, every child in the answer has
\* its edge in the list, and every child whose add_edge(root, C) call has
\* returned Ok is in the answer.
C31_SnapshotIsAState ==
    [][(rdPc = "kids_read" /\ rdPc' = "idle") =>
          /\ nodeWriter[root] = NoThread
          /\ obsKids' = LabelsOf(GetChildren(root))
          /\ \A i \in 1..Len(obsKids') : HasEdge("root", obsKids'[i])
          /\ \A L \in Labels :
                (InsertPending(L) /\ ~HasEdge("root", L)) =>
                    \A i \in 1..Len(obsKids') : obsKids'[i] # L
          /\ \A e \in Edges :
                (e[1] = "root" /\ returned[<<e, "Ok">>] >= 1) =>
                    \E i \in 1..Len(obsKids') : obsKids'[i] = e[2]]_vars

\* the reader was answered [A] while a caller inserting the self-loop of
\* root was waiting for the list
C31_Witness ==
    /\ rdPc = "idle" /\ reads = 1
    /\ obsKids = <<"A">>
    /\ InsertPending("root")

\* sequence a is the beginning of sequence b
IsPrefix(a, b) == Len(a) <= Len(b) /\ SubSeq(b, 1, Len(a)) = a

\* C32: children lists only grow at the end: no step removes or reorders
\* the entries of any node's list, and the answer of a get_children() call
\* on root is the beginning of the answer of the next one, hence of every
\* later one.
C32_AppendOnly ==
    [][/\ \A n \in NodeIds : IsPrefix(children[n], children'[n])
       /\ IsPrefix(obsKids, obsKids')]_vars

\* the reader was answered [A] and root's list has since grown to [A, root]
C32_Witness ==
    /\ obsKids = <<"A">>
    /\ GetChildren(GetRoot) = <<nodes["A"], GetRoot>>

\* --------------------------------------------------- registry and lists
\* C33: as long as no entry is removed from the registry directly, every
\* node that has children is the registry's node of its label, and every
\* entry of its list resolves to the registry's node of the child's label.
C33_EndpointsRegistered ==
    \A p \in NodeIds : \A i \in 1..Len(children[p]) :
        LET w == children[p][i] IN
        /\ data[p] # NoLabel /\ nodes[data[p]] = p
        /\ w # NoNode /\ Upgrade(w) = w
        /\ data[w] # NoLabel /\ nodes[data[w]] = w

\* A and B are each other's only child while a call is still running
C33_Witness ==
    /\ nodes["A"] # NoNode /\ nodes["B"] # NoNode
    /\ children[nodes["A"]] = <<nodes["B"]>>
    /\ children[nodes["B"]] = <<nodes["A"]>>
    /\ ~AllIdle

\* C34: the node stored under a label answers that label from get_data(),
\* in every reachable state, also after registry entries were removed and
\* created again; the label of a node never changes once it is created.
C34_DataIsKey ==
    /\ [](\A L \in Labels : nodes[L] # NoNode => GetData(nodes[L]) = L)
    /\ [][\A n \in NodeIds : data[n] # NoLabel => data'[n] = data[n]]_vars

\* A was removed from the registry and created again: the registry's node
\* of A and the node it replaced both carry the label A
C34_Witness ==
    /\ removals = 1
    /\ nodes["A"] # NoNode
    /\ \E n \in NodeIds : n # nodes["A"] /\ GetData(n) = "A"

\* ---------------------------------------------------- removed children
\* p's list holds entries labelled like c, and all of them are dead
DeadTwin(p, c) ==
    /\ \E i \in 1..Len(children[p]) : data[children[p][i]] = data[c]
    /\ \A i \in 1..Len(children[p]) :
          data[children[p][i]] = data[c] => Upgrade(children[p][i]) = NoNode

\* C35: a dead entry is no duplicate: when a call's scan of P's list meets
\* only dead entries of the label of its child C, a fresh node that the
\* registry holds since the old one was removed, the call appends C,
\* returns Ok, and get_children() of P then answers exactly one node of
\* that label.
C35_DeadEntryIsNoDuplicate ==
    [][\A t \in {u \in Threads : pc[u] = "ch_scan" /\ pc'[u] # "ch_scan"} :
       \A p \in {parent[t]}, c \in {child[t]} :
          ( /\ nodes[data[c]] = c
            /\ DeadTwin(p, c) ) =>
              /\ children'[p] = Append(children[p], c)
              /\ returned'[<< <<argP[t], argC[t]>>, "Ok" >>]
                   = returned[<< <<argP[t], argC[t]>>, "Ok" >>] + 1
              /\ Len(SelectSeq(GetChildren(p)', LAMBDA w : data[w] = data[c])) = 1]_vars

\* root's list holds the removed node of A and the fresh one, both calls
\* returned Ok, and get_children() of root answers the fresh node only
\* (the label "A" taken from the entries themselves)
C35_Witness ==
    /\ AllIdle
    /\ returned[<< <<"root", "A">>, "Ok" >>] = 2
    /\ Len(children[GetRoot]) = 2
    /\ GetData(children[GetRoot][1]) = "A"
    /\ children[GetRoot][1] # nodes["A"]
    /\ GetChildren(GetRoot) = <<nodes["A"]>>

\* -------------------------------------------------- events on and off
\* the positions of a call at which it is about to send an event
SendPcs == {"p_send", "c_send", "e_send"}

\* the position a call without events is at when a call with events is at q
WithoutSend(q) ==
    CASE q = "p_send" -> "c_lock"
      [] q = "c_send" -> "ch_lock"
      [] q = "e_send" -> "idle"
      [] OTHER -> q

\* C36: with events disabled nothing is sent, no call is ever about to send
\* and none returns a delivery error; with a live receiver a call takes the
\* same steps on the registry and the lists, in the same order, plus send
\* steps that leave registry, lists and locks alone and return Ok after
\* the last one; either way, once all calls have returned the graph holds
\* exactly the edges asked for, once each, and the labels asked for.
C36_SameGraphWithoutEvents ==
    /\ [](~events_tx =>
            /\ events = << >>
            /\ \A t \in Threads : pc[t] \notin SendPcs
            /\ \A e \in Calls :
                  /\ returned[<<e, "NodeAddedSendErr">>] = 0
                  /\ returned[<<e, "EdgeAddedSendErr">>] = 0)
    /\ [][\A t \in Threads :
            /\ (pc[t] \in SendPcs /\ pc'[t] # pc[t]) =>
                  /\ graphVars' = graphVars /\ lockVars' = lockVars
                  /\ pc'[t] = WithoutSend(pc[t])
                  /\ pc[t] = "e_send" =>
                        returned'[<< <<argP[t], argC[t]>>, "Ok" >>]
                          = returned[<< <<argP[t], argC[t]>>, "Ok" >>] + 1
                  /\ pc[t] # "e_send" =>
                        (parent'[t] = parent[t] /\ child'[t] = child[t])
            /\ (pc[t] = "p_entry" /\ pc'[t] # pc[t]) => WithoutSend(pc'[t]) = "c_lock"
            /\ (pc[t] = "c_entry" /\ pc'[t] # pc[t]) => WithoutSend(pc'[t]) = "ch_lock"
            /\ (pc[t] = "ch_scan" /\ pc'[t] # pc[t]) => WithoutSend(pc'[t]) = "idle"]_vars
    /\ [](AllIdle =>
            /\ \A p \in Labels, c \in Labels :
                  IF <<p, c>> \in Calls /\ started[<<p, c>>] >= 1
                  THEN HasEdge(p, c) /\ RefCount(nodes[p], nodes[c]) = 1
                  ELSE ~HasEdge(p, c)
            /\ {L \in Labels : nodes[L] # NoNode} = {"root"} \cup LabelsAsked)

\* the same three calls have returned on a graph with events, which sent
\* five events, and the graph is the cycle with A under root
C36_Witness ==
    /\ AllIdle /\ events_tx /\ Len(events) = 5
    /\ \A e \in {<<"root", "A">>, <<"A", "B">>, <<"B", "A">>} : started[e] = 1
    /\ HasEdge("root", "A") /\ HasEdge("A", "B") /\ HasEdge("B", "A")
====
